---- MODULE Spec2Model ----
(***************************************************************************)
(* Model of the SupportTable component                                     *)
(* (src/src/components/Support/SupportTable.jsx): the paginated, searchable *)
(* support-ticket table, its page-number planner (pageNumbers), and its     *)
(* event handlers.  The ticket store (../lib/Support) is a collaborator     *)
(* known by its interface only (listAll, getById, setStatus, remove); it is *)
(* modelled from that interface.                                            *)
(*                                                                         *)
(* Every action is one UI event: the handler, the re-render it causes and   *)
(* the effects (useEffect) that the re-render runs, up to the next settled  *)
(* state.  React flushes the effects of a discrete event before the next    *)
(* event is dispatched, so events only ever observe settled states.         *)
(***************************************************************************)
EXTENDS Integers, Sequences, FiniteSets, TLC

VARIABLES
    store,            \* the TicketStore's contents, a sequence of tickets
    currentPage,      \* useState(1)
    allTickets,       \* useState([]): the tickets matching the search term
    displayedTickets, \* useState([]): the tickets of the current page
    isModalOpen,      \* useState(false)
    selectedTicket,   \* useState(null)
    searchTerm,       \* useState('')
    refreshTrigger,   \* useState(0)
    modalChanges,     \* number of store changes made from inside the modal
    lastEvent         \* history: the last UI event and what its handler saw

vars == <<store, currentPage, allTickets, displayedTickets, isModalOpen,
          selectedTicket, searchTerm, refreshTrigger, modalChanges, lastEvent>>

----------------------------------------------------------------------------
(* Program constants *)

ITEMS_PER_PAGE == 10
PAGE_RANGE == 2

(* Bounds of the model *)

\* tickets in the store when the table is mounted (Spec)
NumTickets == 11
\* store changes made from inside the details modal in a run
MaxModalChanges == 1
\* refreshTrigger is capped: at most MaxRefresh refreshes in a run
MaxRefresh == 2
\* PlanSpec mounts the table on stores of up to MaxPages pages
MaxPages == 12

----------------------------------------------------------------------------
(* Strings are sequences of one-character strings. *)

Min(a, b) == IF a < b THEN a ELSE b
Max(a, b) == IF a > b THEN a ELSE b

\* Math.ceil(n / d) for n >= 0, d > 0
Ceil(n, d) == (n + d - 1) \div d

\* String.prototype.toLowerCase on one character of the model's alphabet
LowerChar(c) ==
    CASE c = "A" -> "a"
      [] c = "B" -> "b"
      [] c = "T" -> "t"
      [] OTHER -> c

toLowerCase(s) == [i \in 1..Len(s) |-> LowerChar(s[i])]

\* String.prototype.includes: sub occurs in s as a contiguous substring
StrIncludes(s, sub) ==
    \E i \in 0..(Len(s) - Len(sub)) : SubSeq(s, i + 1, i + Len(sub)) = sub

Digit(d) ==
    CASE d = 0 -> "0" [] d = 1 -> "1" [] d = 2 -> "2" [] d = 3 -> "3"
      [] d = 4 -> "4" [] d = 5 -> "5" [] d = 6 -> "6" [] d = 7 -> "7"
      [] d = 8 -> "8" [] d = 9 -> "9"

RECURSIVE Decimal(_)
Decimal(k) == IF k < 10 THEN <<Digit(k)>> ELSE Append(Decimal(k \div 10), Digit(k % 10))

----------------------------------------------------------------------------
(* The ticket store (../lib/Support), modelled from its interface.         *)

Null == [id |-> <<>>, submittedBy |-> <<>>, title |-> <<>>, status |-> "null"]

\* the k-th ticket of the mock data
Ticket(k) ==
    [id          |-> <<"T">> \o Decimal(k),
     submittedBy |-> IF k % 3 = 0 THEN <<"A", "b">> ELSE <<"b", "a">>,
     title       |-> IF k % 2 = 1 THEN <<"a", "B">> ELSE <<"B", "a">>,
     status      |-> IF k % 3 = 0 THEN "Resolved"
                     ELSE IF k % 3 = 1 THEN "Pending" ELSE "Open"]

MockTickets(n) == [k \in 1..n |-> Ticket(k)]

\* listAll()
getAllTickets(st) == st

HasTicket(st, ticketId) == \E i \in 1..Len(st) : st[i].id = ticketId

\* getById(id) -> Ticket | None
getTicketById(st, ticketId) ==
    IF HasTicket(st, ticketId)
    THEN st[CHOOSE i \in 1..Len(st) : st[i].id = ticketId]
    ELSE Null

\* setStatus(id, status) -> bool: the store after the call
StoreAfterUpdate(st, ticketId, status) ==
    [i \in 1..Len(st) |->
        IF st[i].id = ticketId THEN [st[i] EXCEPT !.status = status] ELSE st[i]]

\* setStatus(id, status) -> bool: the value returned
updateTicketStatus(st, ticketId, status) == HasTicket(st, ticketId)

\* remove(id) -> bool: the store after the call
StoreAfterDelete(st, ticketId) == SelectSeq(st, LAMBDA t : t.id # ticketId)

\* remove(id) -> bool: the value returned
deleteTicket(st, ticketId) == HasTicket(st, ticketId)

----------------------------------------------------------------------------
(* The page-number planner: the useMemo at lines 99-146.  A token is a page *)
(* number or the string '...'; they are tagged here so that they compare.   *)

Page(n) == [kind |-> "page", n |-> n]
Ellipsis == [kind |-> "ellipsis", n |-> 0]

\* mutant of Includes: the value is looked up as a string and never found
IncludesTypeMismatch(pages, x) == \E j \in 1..Len(pages) : pages[j] = [kind |-> "string", n |-> x.n]

\* Array.prototype.includes
Includes(pages, x) == \E j \in 1..Len(pages) : pages[j] = x

\* [...new Set(pages)]: the first occurrence of each value, in order
RECURSIVE SetSpread(_)
SetSpread(pages) ==
    IF pages = <<>> THEN <<>>
    ELSE LET front == SetSpread(SubSeq(pages, 1, Len(pages) - 1))
             last  == pages[Len(pages)]
         IN  IF Includes(front, last) THEN front ELSE Append(front, last)

\* for (let i = 1; i <= total; i++) pages.push(i)
DensePages(total) == [i \in 1..Max(total, 0) |-> Page(i)]

\* mutant of leftBound: the window starts one page too early
leftBoundOffByOne(total, current) == Max(1, current - PAGE_RANGE - 1)

leftBound(total, current) == Max(1, current - PAGE_RANGE)

rightBound(total, current) == Min(total, current + PAGE_RANGE)

\* "Add first page"
AddFirstPage(pages, total, current) ==
    LET maxPageButtons == (PAGE_RANGE * 2) + 1
    IN  IF current > PAGE_RANGE + 1 /\ total > maxPageButtons + 2
        THEN Append(pages, Page(1))
        ELSE pages

\* "Add left ellipsis"
AddLeftEllipsis(pages, total, current) ==
    IF leftBound(total, current) > 2 THEN Append(pages, Ellipsis) ELSE pages

\* "Add pages around current page": the loop from i to rightBound
RECURSIVE WindowLoop(_, _, _, _)
WindowLoop(pages, i, right, total) ==
    IF i > right THEN pages
    ELSE WindowLoop(
            IF i # 1 \/ Includes(pages, Page(1))
            THEN IF i = total /\ Includes(pages, Page(total))
                 THEN pages
                 ELSE Append(pages, Page(i))
            ELSE pages,
            i + 1, right, total)

AddWindow(pages, total, current) ==
    WindowLoop(pages, leftBound(total, current),
               rightBound(total, current), total)

\* "Add right ellipsis"
AddRightEllipsis(pages, total, current) ==
    IF rightBound(total, current) < total - 1
    THEN Append(pages, Ellipsis)
    ELSE pages

\* "Add last page"
AddLastPage(pages, total, current) ==
    IF total # 1 /\ ~Includes(pages, Page(total))
    THEN Append(pages, Page(total))
    ELSE pages

\* the else branch of the planner, before the final de-duplication
SparsePages(total, current) ==
    LET p1 == AddFirstPage(<<>>, total, current)
        p2 == AddLeftEllipsis(p1, total, current)
        p3 == AddWindow(p2, total, current)
        p4 == AddRightEllipsis(p3, total, current)
    IN  AddLastPage(p4, total, current)

\* mutant of pageNumbers: the dense threshold without the "+ 2" for the anchors
pageNumbersNoSlack(total, current) ==
    LET maxPageButtons == (PAGE_RANGE * 2) + 1
    IN  IF total <= maxPageButtons
        THEN SetSpread(DensePages(total))
        ELSE SetSpread(SparsePages(total, current))

pageNumbers(total, current) ==
    LET maxPageButtons == (PAGE_RANGE * 2) + 1
    IN  IF total <= maxPageButtons + 2
        THEN SetSpread(DensePages(total))
        ELSE SetSpread(SparsePages(total, current))

----------------------------------------------------------------------------
(* The component's derived values and effects. *)

\* line 43
totalPages == Ceil(Len(allTickets), ITEMS_PER_PAGE)

\* the filter predicate of lines 26-30
Matches(ticket, term) ==
    \/ StrIncludes(toLowerCase(ticket.title), toLowerCase(term))
    \/ StrIncludes(toLowerCase(ticket.submittedBy), toLowerCase(term))
    \/ StrIncludes(toLowerCase(ticket.id), toLowerCase(term))

\* lines 25-30: getAllTickets().filter(...)
FilterTickets(st, term) == SelectSeq(getAllTickets(st), LAMBDA t : Matches(t, term))

\* Array.prototype.slice(start, end)
Slice(arr, start, end) ==
    LET len == Len(arr)
        s   == IF start < 0 THEN Max(len + start, 0) ELSE Min(start, len)
        e   == IF end < 0 THEN Max(len + end, 0) ELSE Min(end, len)
    IN  SubSeq(arr, s + 1, e)

\* mutant of PageSlice: the page index is not made zero-based
PageSliceOneBased(tickets, page) ==
    LET startIndex == page * ITEMS_PER_PAGE
        endIndex   == startIndex + ITEMS_PER_PAGE
    IN  Slice(tickets, startIndex, endIndex)

\* lines 37-39
PageSlice(tickets, page) ==
    LET startIndex == (page - 1) * ITEMS_PER_PAGE
        endIndex   == startIndex + ITEMS_PER_PAGE
    IN  Slice(tickets, startIndex, endIndex)

\* the effect of lines 36-40, run on the values of the new render
SliceEffect == displayedTickets' = PageSlice(allTickets', currentPage')

\* mutant of FetchEffect: the page is not reset
FetchEffectKeepPage ==
    /\ allTickets' = FilterTickets(store', searchTerm')
    /\ currentPage' = currentPage
    /\ SliceEffect

\* the effect of lines 24-33, and the slice effect its state changes cause
FetchEffect ==
    /\ allTickets' = FilterTickets(store', searchTerm')
    /\ currentPage' = 1
    /\ SliceEffect

\* setRefreshTrigger(prev => prev + 1) and the effects it causes
Refresh ==
    /\ refreshTrigger' = refreshTrigger + 1
    /\ FetchEffect

NoRefresh == UNCHANGED <<refreshTrigger, allTickets, currentPage, displayedTickets>>

Event(op, arg, ok) == [op |-> op, arg |-> arg, ok |-> ok]

----------------------------------------------------------------------------
(* The state once the component is mounted and its effects have run. *)

Mounted(tickets) ==
    /\ store = tickets
    /\ searchTerm = <<>>
    /\ refreshTrigger = 0
    /\ allTickets = FilterTickets(tickets, <<>>)
    /\ currentPage = 1
    /\ displayedTickets = PageSlice(FilterTickets(tickets, <<>>), 1)
    /\ isModalOpen = FALSE
    /\ selectedTicket = Null
    /\ modalChanges = 0
    /\ lastEvent = Event("mount", <<>>, TRUE)

Init == Mounted(MockTickets(NumTickets))

----------------------------------------------------------------------------
(* Events. *)

\* the values typed into the search box
SearchTerms == {<<>>, <<"A", "b">>, <<"z">>}

\* the rows whose buttons are clicked: the first and the last of the page
RowIds == {displayedTickets[r].id : r \in {1, Len(displayedTickets)} \cap DOMAIN displayedTickets}

\* line 162: onChange={(e) => setSearchTerm(e.target.value)}
setSearchTerm(value) ==
    /\ value # searchTerm
    /\ searchTerm' = value
    /\ UNCHANGED <<store, refreshTrigger, isModalOpen, selectedTicket, modalChanges>>
    /\ FetchEffect
    /\ lastEvent' = Event("setSearchTerm", <<>>, TRUE)

\* mutant of handlePageChange: the upper bound is not checked
handlePageChangeNoUpperBound(page) ==
    /\ IF page >= 1
       THEN /\ currentPage' = page
            /\ UNCHANGED allTickets
            /\ IF page # currentPage THEN SliceEffect ELSE UNCHANGED displayedTickets
       ELSE UNCHANGED <<currentPage, allTickets, displayedTickets>>
    /\ UNCHANGED <<store, searchTerm, refreshTrigger, isModalOpen, selectedTicket,
                   modalChanges>>
    /\ lastEvent' = Event("handlePageChange", page, page >= 1 /\ page <= totalPages)

\* lines 45-49
handlePageChange(page) ==
    /\ IF page >= 1 /\ page <= totalPages
       THEN /\ currentPage' = page
            /\ UNCHANGED allTickets
            /\ IF page # currentPage THEN SliceEffect ELSE UNCHANGED displayedTickets
       ELSE UNCHANGED <<currentPage, allTickets, displayedTickets>>
    /\ UNCHANGED <<store, searchTerm, refreshTrigger, isModalOpen, selectedTicket,
                   modalChanges>>
    /\ lastEvent' = Event("handlePageChange", page, page >= 1 /\ page <= totalPages)

\* lines 325-339: a numbered button; an ellipsis is a span without a handler
ClickPage ==
    \E j \in 1..Len(pageNumbers(totalPages, currentPage)) :
        LET token == pageNumbers(totalPages, currentPage)[j]
        IN  /\ token # Ellipsis
            /\ handlePageChange(token.n)

\* lines 315-323
ClickPrevious ==
    /\ currentPage # 1
    /\ handlePageChange(currentPage - 1)

\* lines 341-349
ClickNext ==
    /\ currentPage # totalPages
    /\ handlePageChange(currentPage + 1)

\* lines 51-55
openDetailsModal(ticketId) ==
    /\ selectedTicket' = getTicketById(store, ticketId)
    /\ isModalOpen' = TRUE
    /\ UNCHANGED <<store, searchTerm, refreshTrigger, allTickets, currentPage,
                   displayedTickets, modalChanges>>
    /\ lastEvent' = Event("openDetailsModal", ticketId, HasTicket(store, ticketId))

\* mutant of closeDetailsModal: the selected ticket is not cleared
closeDetailsModalKeepsTicket ==
    /\ isModalOpen
    /\ refreshTrigger < MaxRefresh
    /\ isModalOpen' = FALSE
    /\ UNCHANGED <<store, searchTerm, modalChanges, selectedTicket>>
    /\ Refresh
    /\ lastEvent' = Event("closeDetailsModal", <<>>, TRUE)

\* mutant of closeDetailsModal: the table is not refreshed on close
closeDetailsModalNoRefresh ==
    /\ isModalOpen
    /\ refreshTrigger < MaxRefresh
    /\ isModalOpen' = FALSE
    /\ selectedTicket' = Null
    /\ UNCHANGED <<store, searchTerm, modalChanges>>
    /\ NoRefresh
    /\ lastEvent' = Event("closeDetailsModal", <<>>, TRUE)

\* lines 57-62
closeDetailsModal ==
    /\ isModalOpen
    /\ refreshTrigger < MaxRefresh
    /\ isModalOpen' = FALSE
    /\ selectedTicket' = Null
    /\ UNCHANGED <<store, searchTerm, modalChanges>>
    /\ Refresh
    /\ lastEvent' = Event("closeDetailsModal", <<>>, TRUE)

\* mutant of handleResolveTicket: the refresh does not depend on success
handleResolveTicketAlwaysRefresh(ticketId) ==
    LET success == updateTicketStatus(store, ticketId, "Resolved")
    IN  /\ refreshTrigger < MaxRefresh
        /\ store' = StoreAfterUpdate(store, ticketId, "Resolved")
        /\ UNCHANGED <<searchTerm, isModalOpen, selectedTicket, modalChanges>>
        /\ Refresh
        /\ lastEvent' = Event("handleResolveTicket", <<>>, success)

\* lines 65-71
handleResolveTicket(ticketId) ==
    LET success == updateTicketStatus(store, ticketId, "Resolved")
    IN  /\ success => refreshTrigger < MaxRefresh
        /\ store' = StoreAfterUpdate(store, ticketId, "Resolved")
        /\ UNCHANGED <<searchTerm, isModalOpen, selectedTicket, modalChanges>>
        /\ IF success THEN Refresh ELSE NoRefresh
        /\ lastEvent' = Event("handleResolveTicket", <<>>, success)

\* lines 74-82; confirmed is the answer to window.confirm
handleDeleteTicket(ticketId, confirmed) ==
    LET success == confirmed /\ deleteTicket(store, ticketId)
    IN  /\ success => refreshTrigger < MaxRefresh
        /\ store' = IF confirmed THEN StoreAfterDelete(store, ticketId) ELSE store
        /\ UNCHANGED <<searchTerm, isModalOpen, selectedTicket, modalChanges>>
        /\ IF success THEN Refresh ELSE NoRefresh
        /\ lastEvent' = Event("handleDeleteTicket", confirmed, success)

\* The details modal changes the ticket it shows in the store (line 60: "in
\* case a change was made in modal"); the table is not told until it closes.
ModalChange ==
    /\ isModalOpen
    /\ selectedTicket # Null
    /\ modalChanges < MaxModalChanges
    /\ modalChanges' = modalChanges + 1
    /\ \/ store' = StoreAfterUpdate(store, selectedTicket.id, "Resolved")
       \/ store' = StoreAfterDelete(store, selectedTicket.id)
    /\ UNCHANGED <<searchTerm, refreshTrigger, allTickets, currentPage,
                   displayedTickets, isModalOpen, selectedTicket>>
    /\ lastEvent' = Event("modal", <<>>, TRUE)

Next ==
    \/ \E value \in SearchTerms : setSearchTerm(value)
    \/ ClickPage
    \/ ClickPrevious
    \/ ClickNext
    \/ \E ticketId \in RowIds : openDetailsModal(ticketId)
    \/ closeDetailsModal
    \/ \E ticketId \in RowIds : handleResolveTicket(ticketId)
    \/ \E ticketId \in RowIds, confirmed \in BOOLEAN : handleDeleteTicket(ticketId, confirmed)
    \/ ModalChange

Spec == Init /\ [][Next]_vars

\* The table mounted on a store of any size up to MaxPages pages, and paged
\* through: the planner's inputs.
PlanInit == \E n \in 0..(MaxPages * ITEMS_PER_PAGE) : Mounted(MockTickets(n))

PlanNext ==
    \/ ClickPage
    \/ ClickPrevious
    \/ ClickNext

PlanSpec == PlanInit /\ [][PlanNext]_vars

----------------------------------------------------------------------------
(* Claims about the planner, checked under PlanSpec. *)

\* the planner's output in the current state
pages == pageNumbers(totalPages, currentPage)

SparseCase ==
    /\ totalPages > 2 * PAGE_RANGE + 3
    /\ 1 <= currentPage /\ currentPage <= totalPages

WindowLeft == IF currentPage - PAGE_RANGE > 1 THEN currentPage - PAGE_RANGE ELSE 1

WindowRight ==
    IF currentPage + PAGE_RANGE < totalPages THEN currentPage + PAGE_RANGE ELSE totalPages

\* the number of '...' tokens of a sequence
EllipsisCount(seq) == Cardinality({j \in 1..Len(seq) : seq[j] = Ellipsis})

\* seq holds token a immediately followed by token b
Adjacent(seq, a, b) == \E j \in 1..(Len(seq) - 1) : seq[j] = a /\ seq[j + 1] = b

\* C1: in the sparse case the output contains Page(i) for every i of the
\* window [max(1, currentPage - PAGE_RANGE), min(totalPages, currentPage +
\* PAGE_RANGE)], so it contains Page(currentPage); for totalPages = 10 and
\* currentPage = 1 it is [Page(1), Page(2), Page(3), Ellipsis, Page(10)].
C1_WindowPagesShown ==
    SparseCase =>
        /\ \A i \in WindowLeft..WindowRight : Includes(pages, Page(i))
        /\ (totalPages = 10 /\ currentPage = 1) =>
               pages = <<Page(1), Page(2), Page(3), Ellipsis, Page(10)>>

\* C2: in the sparse case an Ellipsis stands immediately before the windowed
\* block exactly when left > 2 and immediately after it exactly when
\* right < totalPages - 1; when both hold the output has two Ellipsis tokens.
C2_EllipsisPlacement ==
    SparseCase =>
        /\ Adjacent(pages, Ellipsis, Page(WindowLeft)) <=> WindowLeft > 2
        /\ Adjacent(pages, Page(WindowRight), Ellipsis) <=> WindowRight < totalPages - 1
        /\ (WindowLeft > 2 /\ WindowRight < totalPages - 1) => EllipsisCount(pages) = 2

\* C3: whenever totalPages >= 1 and 1 <= currentPage <= totalPages, the first
\* token of the output is Page(1) and the last is Page(totalPages).
C3_AnchorsShown ==
    (totalPages >= 1 /\ 1 <= currentPage /\ currentPage <= totalPages) =>
        /\ pages # <<>>
        /\ pages[1] = Page(1)
        /\ pages[Len(pages)] = Page(totalPages)

\* the values of currentPage the dense case is checked on, in and out of range
AnyCurrentPage == (0 - 2)..(MaxPages + 2)

\* C4: when totalPages <= 2*PAGE_RANGE + 3, for any currentPage, the output is
\* exactly Page(1), ..., Page(totalPages) with no Ellipsis; it is empty when
\* totalPages = 0.
C4_DenseListsEveryPage ==
    totalPages <= 2 * PAGE_RANGE + 3 =>
        \A current \in AnyCurrentPage :
            /\ pageNumbers(totalPages, current) = [i \in 1..totalPages |-> Page(i)]
            /\ totalPages = 0 => pageNumbers(totalPages, current) = <<>>

C4_Witness ==
    /\ totalPages = 2 * PAGE_RANGE + 3
    /\ currentPage = totalPages
    /\ lastEvent.op = "handlePageChange"
    /\ Len(pages) = totalPages

\* C5: for every totalPages >= 0 and 1 <= currentPage <= max(totalPages, 1),
\* no page number occurs more than once in the output.
C5_NoDuplicatePage ==
    (1 <= currentPage /\ currentPage <= Max(totalPages, 1)) =>
        \A i, j \in 1..Len(pages) :
            (i # j /\ pages[i].kind = "page" /\ pages[j].kind = "page")
                => pages[i].n # pages[j].n

\* the window reaches the last page, which is also the trailing anchor
C5_Witness ==
    /\ SparseCase
    /\ currentPage + PAGE_RANGE = totalPages
    /\ Cardinality({j \in 1..Len(pages) : pages[j] = Page(totalPages)}) = 1

\* C6: in the sparse case with currentPage + PAGE_RANGE >= totalPages the
\* output is Page(1), Ellipsis, Page(currentPage - PAGE_RANGE), ...,
\* Page(totalPages): no second trailing anchor and no trailing Ellipsis.
C6_WindowAtLastPage ==
    (SparseCase /\ currentPage + PAGE_RANGE >= totalPages) =>
        pages = <<Page(1), Ellipsis>> \o
                [k \in 1..(totalPages - (currentPage - PAGE_RANGE) + 1) |->
                    Page(currentPage - PAGE_RANGE + k - 1)]

C6_Witness ==
    /\ totalPages = 10
    /\ currentPage = 10
    /\ pages = <<Page(1), Ellipsis, Page(8), Page(9), Page(10)>>

----------------------------------------------------------------------------
(* Claims about the component, checked under Spec. *)

TableState == <<store, currentPage, allTickets, displayedTickets, isModalOpen,
                selectedTicket, searchTerm, refreshTrigger>>

\* C7: handlePageChange(n) sets currentPage to n when 1 <= n <= totalPages and
\* otherwise changes nothing; so "previous" on page 1, "next" on the last page
\* and "next" with zero pages never move currentPage.
C7_HandlePageChange ==
    [][lastEvent'.op = "handlePageChange" =>
          LET n == lastEvent'.arg
          IN  IF 1 <= n /\ n <= totalPages
              THEN /\ currentPage' = n
                   /\ UNCHANGED <<store, allTickets, isModalOpen, selectedTicket,
                                  searchTerm, refreshTrigger>>
              ELSE UNCHANGED TableState]_vars

\* "next" was clicked with zero pages and nothing moved
C7_Witness ==
    /\ lastEvent = Event("handlePageChange", 2, FALSE)
    /\ totalPages = 0
    /\ currentPage = 1

\* C8: after any sequence of events, 1 <= currentPage <= max(totalPages, 1).
C8_CurrentPageInRange ==
    /\ 1 <= currentPage
    /\ currentPage <= Max(totalPages, 1)

\* the only ticket of page 2 was deleted from page 2: one page is left
C8_Witness ==
    /\ lastEvent.op = "handleDeleteTicket" /\ lastEvent.ok
    /\ searchTerm = <<>>
    /\ refreshTrigger = 1
    /\ Len(store) = NumTickets - 1
    /\ ~HasTicket(store, Ticket(NumTickets).id)
    /\ totalPages = 1
    /\ currentPage = 1

\* the events that trigger a data refresh
RefreshingEvent(e) ==
    \/ e.op = "handleResolveTicket" /\ e.ok
    \/ e.op = "handleDeleteTicket" /\ e.arg /\ e.ok
    \/ e.op = "closeDetailsModal"

\* C9: currentPage is reset to 1 whenever the search term changes or a refresh
\* is triggered; a refresh is triggered by exactly a resolve that returned
\* true, a confirmed delete that returned true, and every close of the modal;
\* a resolve or delete that returned false, or a declined delete, triggers no
\* refresh and leaves currentPage and the filtered list unchanged.
C9_ResetOnSearchOrRefresh ==
    [][/\ (searchTerm' # searchTerm \/ refreshTrigger' # refreshTrigger)
            => currentPage' = 1
       /\ (refreshTrigger' # refreshTrigger) <=> RefreshingEvent(lastEvent')
       /\ RefreshingEvent(lastEvent') => refreshTrigger' = refreshTrigger + 1
       /\ (/\ lastEvent'.op \in {"handleResolveTicket", "handleDeleteTicket"}
           /\ ~lastEvent'.ok)
            => UNCHANGED <<refreshTrigger, currentPage, allTickets>>]_vars

\* a resolve returned false on page 2 and the table stayed on page 2
C9_Witness ==
    /\ lastEvent.op = "handleResolveTicket"
    /\ ~lastEvent.ok
    /\ currentPage = 2

RECURSIVE ConcatPages(_, _)
\* the slices of pages 1..n of a list, one after the other
ConcatPages(tickets, n) ==
    IF n <= 0 THEN <<>> ELSE ConcatPages(tickets, n - 1) \o PageSlice(tickets, n)

\* C10: displayedTickets is the slice of the filtered list at indices
\* [(currentPage-1)*10, currentPage*10): at most 10 tickets, non-empty when the
\* filtered list is non-empty, and the slices of pages 1..totalPages partition
\* the filtered list in order.
C10_DisplayedIsPageSlice ==
    /\ displayedTickets =
           SubSeq(allTickets, (currentPage - 1) * ITEMS_PER_PAGE + 1,
                  Min(currentPage * ITEMS_PER_PAGE, Len(allTickets)))
    /\ Len(displayedTickets) <= ITEMS_PER_PAGE
    /\ allTickets # <<>> => displayedTickets # <<>>
    /\ ConcatPages(allTickets, totalPages) = allTickets
    /\ \A p \in 1..totalPages : PageSlice(allTickets, p) # <<>>

\* the table shows its second page, which holds the last ticket only
C10_Witness ==
    /\ currentPage = 2
    /\ lastEvent.op = "handlePageChange"
    /\ Len(allTickets) = ITEMS_PER_PAGE + 1
    /\ displayedTickets = <<allTickets[ITEMS_PER_PAGE + 1]>>

\* C11: whenever the details modal is closed, the filtered list is the
\* store's current contents filtered by the current search term: no deleted
\* ticket is still listed, a ticket resolved from the table shows Resolved, and
\* a change made to the store while the modal was open is shown after the
\* close.
C11_TableMatchesStore ==
    ~isModalOpen =>
        /\ allTickets = SelectSeq(store, LAMBDA t : Matches(t, searchTerm))
        /\ \A i \in 1..Len(allTickets) :
              \E j \in 1..Len(store) : store[j] = allTickets[i]

\* the modal removed a ticket from the store and was closed: the table, on
\* the empty search term, lists the tickets that are left
C11_Witness ==
    /\ ~isModalOpen
    /\ lastEvent.op = "closeDetailsModal"
    /\ modalChanges = 1
    /\ searchTerm = <<>>
    /\ Len(store) = NumTickets - 1
    /\ allTickets = store

\* C12: selectedTicket is non-null only while isModalOpen is true;
\* closeDetailsModal leaves isModalOpen = false and selectedTicket = null, and
\* openDetailsModal(id) leaves isModalOpen = true with selectedTicket the
\* store's ticket of that id, or null when the store has none.
C12_SelectedOnlyWhileOpen ==
    /\ (selectedTicket # Null => isModalOpen)
    /\ [][/\ selectedTicket' # Null => isModalOpen'
          /\ lastEvent'.op = "closeDetailsModal" =>
                (~isModalOpen' /\ selectedTicket' = Null)
          /\ lastEvent'.op = "openDetailsModal" =>
                /\ isModalOpen'
                /\ \A j \in 1..Len(store) :
                      store[j].id = lastEvent'.arg => selectedTicket' = store[j]
                /\ (\A j \in 1..Len(store) : store[j].id # lastEvent'.arg)
                      => selectedTicket' = Null]_vars

\* the modal was opened from a row whose ticket the store no longer holds
C12_Witness ==
    /\ lastEvent.op = "openDetailsModal"
    /\ ~lastEvent.ok
    /\ isModalOpen
    /\ selectedTicket = Null

====
